---- MODULE Spec2Model ----
(***************************************************************************)
(* covid-model-seiir-pipeline: the beta residual mean stage                *)
(* (forecasting/beta_residual_mean.py) and the path hierarchy (paths.py).  *)
(*                                                                         *)
(* Numbers.  Log-domain quantities (log residuals, their means, offsets)   *)
(* are exact rationals [nan, n, d] in lowest terms with d > 0, or the      *)
(* missing value NaN.  Positive quantities (beta, beta_pred, scale_init,   *)
(* scale_final) are kept by their logarithm: Exp(x) is the number whose    *)
(* natural log is x.  Floating-point rounding is not modelled.             *)
(***************************************************************************)
EXTENDS Integers, Sequences, FiniteSets, TLC

(* ------------------------------ bounds -------------------------------- *)
\* number of draws (data_interface.get_n_draws())
NDraws == 2
\* number of locations (data_interface.load_location_ids())
NLocs == 2
\* largest total death count of a location
MaxDeaths == 3
\* number of dated rows per location in a draw's beta regression file
NDays == 10
\* size of the worker pool
FORECAST_SCALING_CORES == 2

Draws == 0 .. (NDraws - 1)
Locations == 1 .. NLocs
Dates == 1 .. NDays

(* ----------------------------- numbers -------------------------------- *)
Abs(x) == IF x < 0 THEN -x ELSE x

RECURSIVE GCD(_, _)
GCD(a, b) == IF b = 0 THEN a ELSE GCD(b, a % b)

NaN == [nan |-> TRUE, n |-> 0, d |-> 1]

\* n/d in lowest terms; x/0 is +-inf (d = 0) and 0/0 is NaN, as for floats
Rat(n, d) ==
    IF d = 0
    THEN IF n = 0 THEN NaN
         ELSE [nan |-> FALSE, n |-> IF n < 0 THEN -1 ELSE 1, d |-> 0]
    ELSE LET g == GCD(Abs(n), Abs(d))
             s == IF d < 0 THEN -1 ELSE 1
         IN  [nan |-> FALSE, n |-> (s * n) \div g, d |-> (s * d) \div g]

Num(k) == Rat(k, 1)

IsNum(x) == ~x.nan /\ x.d # 0

Add(x, y) == IF ~IsNum(x) \/ ~IsNum(y) THEN NaN
             ELSE Rat(x.n * y.d + y.n * x.d, x.d * y.d)

Sub(x, y) == IF ~IsNum(x) \/ ~IsNum(y) THEN NaN
             ELSE Rat(x.n * y.d - y.n * x.d, x.d * y.d)

Mul(x, y) == IF ~IsNum(x) \/ ~IsNum(y) THEN NaN
             ELSE Rat(x.n * y.n, x.d * y.d)

Div(x, y) == IF ~IsNum(x) \/ ~IsNum(y) THEN NaN
             ELSE Rat(x.n * y.d, x.d * y.n)

\* np.exp, np.log and the ratio of two positive numbers, on logarithms
Exp(x) == [exp |-> x]
Log(p) == p.exp
Ratio(p, q) == Exp(Sub(p.exp, q.exp))

RECURSIVE SeqSum(_)
SeqSum(s) == IF s = << >> THEN Num(0) ELSE Add(Head(s), SeqSum(Tail(s)))

\* Series.mean(): NaN on an empty selection, missing entries skipped
SeqMean(s) ==
    LET present == SelectSeq(s, LAMBDA v : ~v.nan)
    IN  IF present = << >> THEN NaN
        ELSE Div(SeqSum(present), Num(Len(present)))

\* x.iloc[-b:-a] for 1 <= a < b: python slice bounds clamp at the start
ILocTail(s, b, a) ==
    LET n == Len(s)
        start == IF n - b < 0 THEN 0 ELSE n - b
        stop == IF n - a < 0 THEN 0 ELSE n - a
    IN  IF stop <= start THEN << >> ELSE SubSeq(s, start + 1, stop)

(* -------------------- state of run_beta_residual_mean ----------------- *)
VARIABLES
    total_deaths,      \* Series location_id -> deaths (line 29)
    beta_scaling,      \* forecast_spec.scenarios[scenario_name].beta_scaling
    mt,                \* the generator: seed -> the raw numbers it yields
    beta_level,        \* per draw: which beta regression file is on disk
    regression_locations, \* per draw: the locations that file has rows for
    pc,                \* position of the main process
    task,              \* per draw: "queued", "running" or "done" in the pool
    result,            \* per draw: what the worker's call returned or raised
    scaling_data,      \* the list built from pool.imap (line 41)
    average_log_beta_resid_mean,
    offset,
    i,                 \* index of the for loop of line 58
    saved,             \* the calls of data_interface.save_beta_scales
    error,             \* the exception that ended the run, or "none"
    finished,          \* history: the draws in the order their workers ended
    calls,             \* history: per draw, how often it was computed
    windows,           \* history: the (draw, a, b) of the calls that returned
    scenario_name,     \* the scenario this run is for
    other_run          \* a run for another scenario: its name, its loop index

scenario_vars == << scenario_name, other_run >>

run_vars == << total_deaths, beta_scaling, mt, beta_level,
               regression_locations, pc, task, result,
               scaling_data, average_log_beta_resid_mean, offset, i, saved,
               error, finished, calls, windows, scenario_vars >>

(* ------------------------ state of the path objects ------------------- *)
VARIABLES
    store,             \* the Paths object: class, root_dir, read_only, scenarios
    fs_entries,        \* what the infection root holds: name -> "dir" or "file"
    fs_dirs,           \* the directories mkdir has created
    op,                \* the last call on the store and its outcome
    resolved           \* history: the (key, path) of the get_*_path calls

path_vars == << store, fs_entries, fs_dirs, op, resolved >>

vars == << run_vars, path_vars >>

\* no path object is in use
NoStore == [cls |-> "none"]
IdlePaths ==
    /\ store = NoStore
    /\ fs_entries = << >>
    /\ fs_dirs = {}
    /\ op = [name |-> "none"]
    /\ resolved = << >>

(* ------------------------------ inputs -------------------------------- *)
\* a run for the scenario "reference", no other run going on
OneScenario ==
    /\ scenario_name = << "reference" >>
    /\ other_run = [scenario_name |-> << "worse" >>, i |-> 0]

\* a generator is the raw numbers it yields for each seed: two are consumed
\* the streams a seed may stand for when the computation is called alone:
\* together they give every a and, for each a, every b the bounds allow
WindowStreams == { << 0, 0 >>, << 0, 1 >>, << 1, 1 >>, << 1, 2 >>, << 2, 2 >> }
AllGenerators == [Draws -> WindowStreams]
RunGenerators == { [d \in Draws |-> [k \in 1 .. 2 |-> (d + k) % 2]],
                   [d \in Draws |-> [k \in 1 .. 2 |-> (d * k) % 2]] }

\* scaling configurations: thresholds and averaging-window bounds
\* (with average_over_max = 9 the draw of b fails when a = 2)
RunConfigs ==
    { [window_size |-> 5, average_over_min |-> 3, average_over_max |-> c[3],
       offset_deaths_lower |-> c[1], offset_deaths_upper |-> c[2]] :
      c \in { <<1, 3, 11>>, <<2, 2, 11>>, <<1, 3, 9>> } }

\* the beta regression files a draw may have on disk, named by a level: the
\* log of beta/beta_pred cycles with the date through 0, level, 2 * level,
\* with a phase that depends on the location when the level is odd, as
\* does the end date
BetaLevels == { -3, 2 }
\* which file each draw has: all draws at one level, or draw 0 at the even
\* level and the others at the odd one
BetaLevelAssignments ==
    { [d \in Draws |-> lv] : lv \in BetaLevels }
    \cup { [d \in Draws |-> IF d = 0 THEN 2 ELSE -3] }

\* load_dates_df(draw_id): end_date by location
load_dates_df(draw_id) ==
    [l \in Locations |->
        NDays - ((draw_id + l * (beta_level[draw_id] % 2)) % 2)]

\* load_beta_regression(draw_id): by location, the rows in date order
load_beta_regression(draw_id) ==
    [l \in regression_locations[draw_id] |->
        [t \in Dates |->
            [date |-> t,
             beta |-> Exp(Num(beta_level[draw_id]
                                * ((t + l * (beta_level[draw_id] % 2)) % 3) + l)),
             beta_pred |-> Exp(Num(l))]]]

(* ---------------- compute_beta_scaling_parameters --------------------- *)
\* (a generator seeded from the number of earlier calls, not the draw id)
RandomStateFromCallCount(seed) == [seed |-> calls[seed] % NDraws, pos |-> 0]

\* line 95: np.random.RandomState(draw_id)
RandomState(seed) == [seed |-> seed, pos |-> 0]

\* rs.randint(low, high): uniform on [low, high), ValueError when low >= high
Randint(rs, low, high) ==
    IF low >= high THEN [ok |-> FALSE]
    ELSE [ok |-> TRUE,
          value |-> low + (mt[rs.seed][rs.pos + 1] % (high - low)),
          rs |-> [rs EXCEPT !.pos = @ + 1]]

\* lines 95-97: a, then b, from the stream seeded by the draw id
HistoryWindow(draw_id, scaling) ==
    LET ra == Randint(RandomState(draw_id), 1, scaling.average_over_min)
    IN  IF ~ra.ok THEN [ok |-> FALSE]
        ELSE LET rb == Randint(ra.rs, ra.value + 7, scaling.average_over_max)
             IN  IF ~rb.ok THEN [ok |-> FALSE]
                 ELSE [ok |-> TRUE, a |-> ra.value, b |-> rb.value]

\* lines 102-111: the mean log residual of one location over iloc[-b:-a]
LogBetaResidMean(rows, end_date, a, b) ==
    LET past == SelectSeq(rows, LAMBDA r : r.date <= end_date)
        resid == [k \in 1 .. Len(past) |->
                     Log(Ratio(past[k].beta, past[k].beta_pred))]
    IN  SeqMean(ILocTail(resid, b, a))

compute_beta_scaling_parameters(draw_id, deaths, scaling) ==
    LET transition_date == load_dates_df(draw_id)
        beta_regression_df == load_beta_regression(draw_id)
        w == HistoryWindow(draw_id, scaling)
        \* lines 87-90 and 102-111 give the locations of beta_regression_df;
        \* the outer join of pd.concat(axis=1), line 115, fills the columns
        \* of a location they lack with NaN
        missing == [beta |-> Exp(NaN), beta_pred |-> Exp(NaN)]
        beta_transition(l) ==
            IF l \in DOMAIN beta_regression_df
            THEN beta_regression_df[l][transition_date[l]]
            ELSE missing
    IN  IF ~w.ok THEN [raised |-> "ValueError"]
        ELSE [raised |-> "none",
              df |-> [l \in Locations |->
                 [deaths |-> deaths[l],
                  window_size |-> scaling.window_size,
                  fit_final |-> beta_transition(l).beta,
                  pred_start |-> beta_transition(l).beta_pred,
                  scale_init |-> Ratio(beta_transition(l).beta,
                                       beta_transition(l).beta_pred),
                  history_days_start |-> w.a,
                  history_days_end |-> w.b,
                  log_beta_residual_mean |->
                      IF l \in DOMAIN beta_regression_df
                      THEN LogBetaResidMean(beta_regression_df[l],
                                            transition_date[l], w.a, w.b)
                      ELSE NaN,
                  draw |-> draw_id]]]

(* ------------------- run_beta_residual_mean: the pool ------------------ *)
NoResult == [raised |-> "pending"]

Init ==
    /\ IdlePaths
    /\ total_deaths \in [Locations -> 0 .. MaxDeaths]
    /\ beta_scaling \in RunConfigs
    /\ mt \in RunGenerators
    /\ beta_level \in BetaLevelAssignments
    /\ regression_locations = [d \in Draws |-> Locations]
    /\ pc = "pool"
    /\ task = [d \in Draws |-> "queued"]
    /\ result = [d \in Draws |-> NoResult]
    /\ scaling_data = << >>
    /\ average_log_beta_resid_mean = [l \in Locations |-> NaN]
    /\ offset = [l \in Locations |-> Num(0)]
    /\ i = 0
    /\ saved = << >>
    /\ error = "none"
    /\ finished = << >>
    /\ calls = [d \in Draws |-> 0]
    /\ windows = {}
    /\ OneScenario

\* the history of a call of compute_beta_scaling_parameters
RecordCall(d, r) ==
    /\ calls' = [calls EXCEPT ![d] = @ + 1]
    /\ windows' = IF r.raised # "none" THEN windows
                  ELSE windows \cup
                       { [draw |-> d,
                          a |-> r.df[l].history_days_start,
                          b |-> r.df[l].history_days_end] : l \in Locations }

\* a pool worker takes the next queued draw, in submission order
WorkerStart(d) ==
    /\ UNCHANGED path_vars
    /\ UNCHANGED scenario_vars
    /\ pc = "pool"
    /\ task[d] = "queued"
    /\ \A e \in Draws : e < d => task[e] # "queued"
    /\ Cardinality({e \in Draws : task[e] = "running"}) < FORECAST_SCALING_CORES
    /\ task' = [task EXCEPT ![d] = "running"]
    /\ UNCHANGED << total_deaths, beta_scaling, mt, beta_level,
                    regression_locations, pc, result,
                    scaling_data, average_log_beta_resid_mean, offset, i,
                    saved, error, finished,
                    calls, windows >>

\* the worker's call of compute_beta_scaling_parameters returns or raises
WorkerFinish(d) ==
    /\ UNCHANGED path_vars
    /\ UNCHANGED scenario_vars
    /\ pc = "pool"
    /\ task[d] = "running"
    /\ task' = [task EXCEPT ![d] = "done"]
    /\ LET r == compute_beta_scaling_parameters(d, total_deaths, beta_scaling)
       IN  /\ result' = [result EXCEPT ![d] = r]
           /\ RecordCall(d, r)
    /\ finished' = Append(finished, d)
    /\ UNCHANGED << total_deaths, beta_scaling, mt, beta_level,
                    regression_locations, pc,
                    scaling_data, average_log_beta_resid_mean, offset, i,
                    saved, error >>

\* the draws whose result pool.imap may hand to list() next: imap yields in
\* submission order, so only the draw at the next position, once it is done
ImapUnorderedNext ==
    { d \in Draws :
        /\ task[d] = "done"
        /\ \A k \in 1 .. Len(scaling_data) :
              \A l \in Locations : scaling_data[k][l].draw # d }

ImapNext ==
    { d \in Draws : d = Len(scaling_data) /\ task[d] = "done" }

\* line 41: list(pool.imap(...)) takes the next result; a worker's exception
\* is re-raised in the main process and the with block terminates the pool
ImapYield ==
    /\ UNCHANGED path_vars
    /\ UNCHANGED scenario_vars
    /\ pc = "pool"
    /\ \E d \in ImapNext :
          IF result[d].raised = "none"
          THEN /\ scaling_data' = Append(scaling_data, result[d].df)
               /\ UNCHANGED << pc, error >>
          ELSE /\ pc' = "failed"
               /\ error' = result[d].raised
               /\ UNCHANGED scaling_data
    /\ UNCHANGED << total_deaths, beta_scaling, mt, beta_level,
                    regression_locations, task, result,
                    average_log_beta_resid_mean, offset, i, saved, finished,
                    calls, windows >>

(* --------------- run_beta_residual_mean: the aggregation --------------- *)
\* lines 43-45: concat of every draw's log_beta_residual_mean, grouped by
\* location, mean of each group
CrossDrawMean(data) ==
    [l \in Locations |->
        SeqMean([k \in 1 .. Len(data) |-> data[k][l].log_beta_residual_mean])]

\* (an aggregation that would start on the results collected so far)
AggregatePartial ==
    /\ UNCHANGED path_vars
    /\ UNCHANGED scenario_vars
    /\ pc = "pool"
    /\ Len(scaling_data) >= 1
    /\ average_log_beta_resid_mean' = CrossDrawMean(scaling_data)
    /\ pc' = "pdb"
    /\ UNCHANGED << total_deaths, beta_scaling, mt, beta_level,
                    regression_locations, task, result,
                    scaling_data, offset, i, saved, error, finished,
                    calls, windows >>

Aggregate ==
    /\ UNCHANGED path_vars
    /\ UNCHANGED scenario_vars
    /\ pc = "pool"
    /\ Len(scaling_data) = NDraws
    /\ average_log_beta_resid_mean' = CrossDrawMean(scaling_data)
    /\ pc' = "pdb"
    /\ UNCHANGED << total_deaths, beta_scaling, mt, beta_level,
                    regression_locations, task, result,
                    scaling_data, offset, i, saved, error, finished,
                    calls, windows >>

\* line 48: pdb.set_trace() stops at the debugger prompt; "continue" resumes
PdbContinue ==
    /\ UNCHANGED path_vars
    /\ UNCHANGED scenario_vars
    /\ pc = "pdb"
    /\ pc' = "offset"
    /\ UNCHANGED << total_deaths, beta_scaling, mt, beta_level,
                    regression_locations, task, result,
                    scaling_data, average_log_beta_resid_mean, offset, i,
                    saved, error, finished,
                    calls, windows >>

\* line 48: "quit", or end of input on stdin, raises BdbQuit
PdbQuit ==
    /\ UNCHANGED path_vars
    /\ UNCHANGED scenario_vars
    /\ pc = "pdb"
    /\ pc' = "failed"
    /\ error' = "BdbQuit"
    /\ UNCHANGED << total_deaths, beta_scaling, mt, beta_level,
                    regression_locations, task, result,
                    scaling_data, average_log_beta_resid_mean, offset, i,
                    saved, finished,
                    calls, windows >>

\* line 50: (deaths_lower <= total_deaths) & (total_deaths < deaths_upper)
ScaledOffsetUnboundedAbove(deaths, lower, upper) ==
    { l \in DOMAIN deaths : lower <= deaths[l] }

scaled_offset(deaths, lower, upper) ==
    { l \in DOMAIN deaths : lower <= deaths[l] /\ deaths[l] < upper }

\* line 51: total_deaths < deaths_lower
full_offset(deaths, lower) ==
    { l \in DOMAIN deaths : deaths[l] < lower }

\* line 54: (deaths_upper - total_deaths)/(deaths_upper - deaths_lower)
scale_factor(deaths, lower, upper) ==
    [l \in DOMAIN deaths |-> Div(Num(upper - deaths[l]), Num(upper - lower))]

\* series.loc[mask] = value, value a Series (pandas _align_series): the value
\* is reindexed to the selected labels, labels it lacks becoming NaN; when no
\* label is selected the value is taken as it is, and a non-empty value for
\* an empty selection is, depending on the pandas release, a length
\* ValueError or an assignment of nothing.
LocSetitem(series, sel, value) ==
    IF sel = {}
    THEN IF DOMAIN value = {}
         THEN { [raised |-> "none", series |-> series] }
         ELSE { [raised |-> "ValueError"],
                [raised |-> "none", series |-> series] }
    ELSE { [raised |-> "none",
            series |-> [l \in DOMAIN series |->
                          IF l \in sel
                          THEN IF l \in DOMAIN value THEN value[l] ELSE NaN
                          ELSE series[l]]] }

\* line 53
OffsetInit(deaths) == [l \in DOMAIN deaths |-> Num(0)]

\* line 55: the value assigned to the interpolated band
ScaledOffsetValue(deaths, lower, upper, average) ==
    LET sel == scaled_offset(deaths, lower, upper)
    IN  [l \in sel |-> Mul(scale_factor(deaths, lower, upper)[l], average[l])]

\* line 56: the value assigned below the lower threshold is the average
\* restricted to scaled_offset, the mask of the interpolated band
FullOffsetValue(deaths, lower, upper, average) ==
    LET sel == scaled_offset(deaths, lower, upper)
    IN  [l \in sel |-> average[l]]

\* lines 50-56: the possible outcomes
OffsetOutcomes(deaths, lower, upper, average) ==
    LET first == LocSetitem(OffsetInit(deaths),
                            scaled_offset(deaths, lower, upper),
                            ScaledOffsetValue(deaths, lower, upper, average))
    IN  UNION { IF o.raised # "none" THEN { o }
                ELSE LocSetitem(o.series, full_offset(deaths, lower),
                                FullOffsetValue(deaths, lower, upper, average))
                : o \in first }

ComputeOffset ==
    /\ UNCHANGED path_vars
    /\ UNCHANGED scenario_vars
    /\ pc = "offset"
    /\ \E o \in OffsetOutcomes(total_deaths, beta_scaling.offset_deaths_lower,
                               beta_scaling.offset_deaths_upper,
                               average_log_beta_resid_mean) :
          IF o.raised = "none"
          THEN /\ offset' = o.series
               /\ pc' = "loop"
               /\ i' = 1
               /\ UNCHANGED error
          ELSE /\ pc' = "failed"
               /\ error' = o.raised
               /\ UNCHANGED << offset, i >>
    /\ UNCHANGED << total_deaths, beta_scaling, mt, beta_level,
                    regression_locations, task, result,
                    scaling_data, average_log_beta_resid_mean, saved,
                    finished,
                    calls, windows >>

\* a loop body that would store the corrected value only in scale_final and
\* leave log_beta_residual_mean as returned (not what line 62 does)
ApplyOffsetKeepingMean(row, off) ==
    row @@ [log_beta_residual_mean_offset |-> off,
            scale_final |-> Exp(Sub(row.log_beta_residual_mean, off))]

\* lines 61-63 on one row: the offset column is added, log_beta_residual_mean
\* is decremented in place, scale_final is the exponential of the new value
ApplyOffset(row, off) ==
    LET corrected == Sub(row.log_beta_residual_mean, off)
    IN  [row EXCEPT !.log_beta_residual_mean = corrected]
        @@ [log_beta_residual_mean_offset |-> off,
            scale_final |-> Exp(corrected)]

\* lines 58-65: one iteration of the loop over scaling_data
SaveDraw ==
    /\ UNCHANGED path_vars
    /\ UNCHANGED scenario_vars
    /\ pc = "loop"
    /\ i <= Len(scaling_data)
    /\ LET df == [l \in Locations |-> ApplyOffset(scaling_data[i][l], offset[l])]
           draw_id == df[1].draw
       IN  /\ scaling_data' = [scaling_data EXCEPT ![i] = df]
           /\ saved' = Append(saved, [df |-> df,
                                      scenario_name |-> scenario_name,
                                      draw_id |-> draw_id])
    /\ i' = i + 1
    /\ pc' = IF i = Len(scaling_data) THEN "done" ELSE "loop"
    /\ UNCHANGED << total_deaths, beta_scaling, mt, beta_level,
                    regression_locations, task, result,
                    average_log_beta_resid_mean, offset, error, finished,
                    calls, windows >>

Next ==
    \/ \E d \in Draws : WorkerStart(d)
    \/ \E d \in Draws : WorkerFinish(d)
    \/ ImapYield
    \/ Aggregate
    \/ PdbContinue
    \/ PdbQuit
    \/ ComputeOffset
    \/ SaveDraw


Spec == Init /\ [][Next]_vars

(* ======================= claims: the offset ============================ *)
Lower == beta_scaling.offset_deaths_lower
Upper == beta_scaling.offset_deaths_upper

\* the mean log residual compute_beta_scaling_parameters returned for a
\* draw and location, and its mean over all draws
ReturnedMean(d, l) == result[d].df[l].log_beta_residual_mean
OwnCrossDrawMean(l) ==
    SeqMean([k \in 1 .. NDraws |-> ReturnedMean(k - 1, l)])

SavedRows == { <<k, l>> : k \in 1 .. Len(saved), l \in Locations }
SavedRow(kl) == saved[kl[1]].df[kl[2]]
SavedDraw(kl) == saved[kl[1]].draw_id

\* C1 (as claimed): every location with total deaths below the lower
\* threshold gets, in every saved record, an offset equal to its own
\* cross-draw mean log residual.
C1_FullOffsetIsOwnMean ==
    \A kl \in SavedRows :
        total_deaths[kl[2]] < Lower =>
            SavedRow(kl).log_beta_residual_mean_offset
                = OwnCrossDrawMean(kl[2])

\* C2: every location with total deaths at or above the upper threshold gets
\* offset exactly 0 in every saved record, and the record's mean log residual
\* is the value the per-draw computation returned.
C2_NoOffsetAtOrAboveUpper ==
    \A kl \in SavedRows :
        total_deaths[kl[2]] >= Upper =>
            /\ SavedRow(kl).log_beta_residual_mean_offset = Num(0)
            /\ SavedRow(kl).log_beta_residual_mean
                  = ReturnedMean(SavedDraw(kl), kl[2])

\* a record was saved for a location at or above the upper threshold whose
\* cross-draw mean is not zero, in a run with a location in the band
C2_Witness ==
    \E kl \in SavedRows :
        /\ total_deaths[kl[2]] >= Upper
        /\ OwnCrossDrawMean(kl[2]) # Num(0)
        /\ \E l \in Locations : Lower <= total_deaths[l] /\ total_deaths[l] < Upper

\* order and magnitude of numbers; as for floats, every comparison with a
\* missing value is false
Less(x, y) == IsNum(x) /\ IsNum(y) /\ x.n * y.d < y.n * x.d
AbsNum(x) == IF IsNum(x) THEN Rat(Abs(x.n), x.d) ELSE NaN
OppositeSigns(x, y) == IsNum(x) /\ IsNum(y) /\ x.n * y.n < 0

SavedOffset(k, l) == saved[k].df[l].log_beta_residual_mean_offset

\* C3 (as claimed): in the band lower <= D < upper the offset is
\* ((U - D)/(U - L)) times the location's cross-draw mean; and, comparing
\* two locations with the same cross-draw mean, the offset is monotonic in
\* D (it shrinks toward 0 as D grows) and does not jump at the lower
\* threshold: a location at D = L gets the offset of a location with D < L.
C3_OffsetInterpolatesWithoutJump ==
    \A k \in 1 .. Len(saved) :
        /\ \A l \in Locations :
              (Lower <= total_deaths[l] /\ total_deaths[l] < Upper) =>
                  SavedOffset(k, l)
                      = Mul(Div(Num(Upper - total_deaths[l]), Num(Upper - Lower)),
                            OwnCrossDrawMean(l))
        /\ \A l1, l2 \in Locations :
              (OwnCrossDrawMean(l1) = OwnCrossDrawMean(l2)
                  /\ total_deaths[l1] <= total_deaths[l2]) =>
                  /\ ~Less(AbsNum(SavedOffset(k, l1)), AbsNum(SavedOffset(k, l2)))
                  /\ ~OppositeSigns(SavedOffset(k, l1), SavedOffset(k, l2))
                  /\ (total_deaths[l1] < Lower /\ total_deaths[l2] = Lower) =>
                         SavedOffset(k, l1) = SavedOffset(k, l2)

\* C4 (as claimed): for every saved record, log(scale_final) + offset is the
\* mean log residual the per-draw computation returned for that draw and
\* location, that is scale_final = exp(m - offset).
C4_ScaleFinalRoundTrip ==
    \A kl \in SavedRows :
        /\ Add(Log(SavedRow(kl).scale_final),
               SavedRow(kl).log_beta_residual_mean_offset)
              = ReturnedMean(SavedDraw(kl), kl[2])
        /\ IsNum(Log(SavedRow(kl).scale_final))

\* the columns compute_beta_scaling_parameters returns (lines 72-113)
OriginalFields ==
    { "deaths", "window_size", "fit_final", "pred_start", "scale_init",
      "history_days_start", "history_days_end", "log_beta_residual_mean",
      "draw" }

\* C5 (as claimed), on the records whose offset is a number: the saved record
\* still carries every field as the per-draw computation returned it, the
\* mean log residual included.
C5_OriginalFieldsKept ==
    \A kl \in SavedRows :
        IsNum(SavedRow(kl).log_beta_residual_mean_offset) =>
            \A f \in OriginalFields :
                SavedRow(kl)[f] = result[SavedDraw(kl)].df[kl[2]][f]

\* C5 (amended): the saved record carries every returned field unchanged
\* except log_beta_residual_mean, which is overwritten in place by the
\* corrected value (returned mean minus offset, missing when the offset is
\* missing); the offset and scale_final are the only added fields.
C5_OnlyMeanOverwritten ==
    \A kl \in SavedRows :
        LET row == SavedRow(kl)
            ret == result[SavedDraw(kl)].df[kl[2]]
        IN  /\ DOMAIN row = OriginalFields
                   \cup { "log_beta_residual_mean_offset", "scale_final" }
            /\ \A f \in OriginalFields \ { "log_beta_residual_mean" } :
                   row[f] = ret[f]
            /\ row.log_beta_residual_mean
                   = Sub(ret.log_beta_residual_mean,
                         row.log_beta_residual_mean_offset)

\* a record was saved whose offset is a number other than 0, so that the
\* stored mean differs from the returned one
C5_Witness ==
    \E kl \in SavedRows :
        /\ IsNum(SavedRow(kl).log_beta_residual_mean_offset)
        /\ SavedRow(kl).log_beta_residual_mean_offset # Num(0)
        /\ SavedRow(kl).log_beta_residual_mean
              # ReturnedMean(SavedDraw(kl), kl[2])

(* ======================== claims: the pool ============================= *)
\* C10: position k of scaling_data holds the result computed for draw k,
\* whatever the order in which the workers finished.
C10_ImapKeepsDrawOrder ==
    \A k \in 1 .. Len(scaling_data) :
        /\ \A l \in Locations : scaling_data[k][l].draw = k - 1
        /\ pc \in { "pool", "pdb", "offset" } =>
               scaling_data[k] = result[k - 1].df

\* every draw's result was collected although a later draw's worker
\* finished before an earlier draw's
C10_Witness ==
    /\ Len(scaling_data) = NDraws
    /\ \E p, q \in 1 .. Len(finished) : p < q /\ finished[p] > finished[q]

\* the draws whose computation raised
RaisedDraws == { d \in Draws : result[d].raised \notin { "none", "pending" } }

\* C11: once the computation of some draw has raised, the run is still in
\* the pool or has failed, with the failure a worker raised, and nothing was
\* saved; and the steps after the pool (aggregation, offset, saving) are only
\* reached when every draw's computation has returned.
C11_WorkerFailureAbortsWithoutSaving ==
    /\ RaisedDraws # {} =>
          /\ pc \in { "pool", "failed" }
          /\ saved = << >>
          /\ pc = "failed" => \E d \in RaisedDraws : error = result[d].raised
    /\ pc \in { "pdb", "offset", "loop", "done" } =>
          \A d \in Draws : result[d].raised = "none"
    /\ saved # << >> => \A d \in Draws : result[d].raised = "none"

\* the run failed with a worker's error after another draw's computation had
\* returned and been collected, the failing worker having finished first
C11_Witness ==
    /\ pc = "failed"
    /\ error = "ValueError"
    /\ saved = << >>
    /\ Len(scaling_data) >= 1
    /\ Len(finished) >= 2
    /\ finished[1] \in RaisedDraws

(* ====================== claims: termination ============================ *)
\* the main process keeps running: it collects a result that is ready,
\* aggregates, gets an answer at the debugger prompt of line 48 (a command,
\* or the end of its input), computes the offset and goes through the loop;
\* the pool hands a queued draw to a free worker.  That a worker's
\* computation returns is not assumed.  Aggregate and ComputeOffset each
\* leave the position they are enabled at, so weak fairness of them is that
\* the main process does not stay there.
MainProcessRuns ==
    /\ \A d \in Draws : WF_vars(WorkerStart(d))
    /\ WF_vars(ImapYield)
    /\ []<>~(pc = "pool" /\ Len(scaling_data) = NDraws)
    /\ WF_vars(PdbContinue \/ PdbQuit)
    /\ []<>~(pc = "offset")
    /\ WF_vars(SaveDraw)

SpecLive == Init /\ [][Next]_vars /\ MainProcessRuns

\* every draw's computation has returned
AllReturned == \A d \in Draws : result[d].raised = "none"

\* save_beta_scales was called exactly once for each draw id 0 .. N-1
EveryDrawSavedOnce ==
    /\ Len(saved) = NDraws
    /\ \A d \in Draws :
          Cardinality({ k \in 1 .. Len(saved) : saved[k].draw_id = d }) = 1

\* C13 (as claimed): a run in which every per-draw computation returns
\* eventually ends, having saved every draw exactly once.
C13_SuccessfulRunSavesEveryDraw ==
    AllReturned ~> (pc = "done" /\ EveryDrawSavedOnce)

\* the part of C13 that holds of the code: a run that reaches the end of
\* the loop has saved every draw exactly once
C13_DoneMeansEveryDrawSaved ==
    pc = "done" => EveryDrawSavedOnce

(* =================== the history window, called alone ================== *)
\* how often a caller may call the computation for one draw
MaxCalls == 2

WindowConfigs ==
    { [window_size |-> 5, average_over_min |-> mn, average_over_max |-> mx,
       offset_deaths_lower |-> 1, offset_deaths_upper |-> 3] :
      mn \in 1 .. 3, mx \in { 9, 11 } }

InitWindow ==
    /\ IdlePaths
    /\ total_deaths = [l \in Locations |-> l % (MaxDeaths + 1)]
    /\ beta_scaling \in WindowConfigs
    /\ mt \in AllGenerators
    /\ beta_level = [d \in Draws |-> 2]
    /\ regression_locations = [d \in Draws |-> Locations]
    /\ pc = "compute"
    /\ task = [d \in Draws |-> "queued"]
    /\ result = [d \in Draws |-> NoResult]
    /\ scaling_data = << >>
    /\ average_log_beta_resid_mean = [l \in Locations |-> NaN]
    /\ offset = [l \in Locations |-> Num(0)]
    /\ i = 0
    /\ saved = << >>
    /\ error = "none"
    /\ finished = << >>
    /\ calls = [d \in Draws |-> 0]
    /\ windows = {}
    /\ OneScenario

\* one call of compute_beta_scaling_parameters(draw_id, ...), in any order
\* and any number of times per draw
CallCompute(d) ==
    /\ UNCHANGED path_vars
    /\ UNCHANGED scenario_vars
    /\ pc = "compute"
    /\ calls[d] < MaxCalls
    /\ LET r == compute_beta_scaling_parameters(d, total_deaths, beta_scaling)
       IN  /\ result' = [result EXCEPT ![d] = r]
           /\ RecordCall(d, r)
    /\ UNCHANGED << total_deaths, beta_scaling, mt, beta_level,
                    regression_locations, pc, task,
                    scaling_data, average_log_beta_resid_mean, offset, i,
                    saved, error, finished >>

NextWindow == \E d \in Draws : CallCompute(d)

SpecWindow == InitWindow /\ [][NextWindow]_vars

\* C6: whenever compute_beta_scaling_parameters returns, the window it
\* records has 1 <= a <= average_over_min, a + 7 <= b <= average_over_max,
\* and every call for the same draw id records the same (a, b).
C6_HistoryWindowBoundedAndReproducible ==
    /\ \A w \in windows :
          /\ 1 <= w.a
          /\ w.a <= beta_scaling.average_over_min
          /\ w.a + 7 <= w.b
          /\ w.b <= beta_scaling.average_over_max
    /\ \A w1, w2 \in windows :
          w1.draw = w2.draw => (w1.a = w2.a /\ w1.b = w2.b)

\* a draw was computed twice and returned, and two draws got different
\* windows from the same configuration
C6_Witness ==
    /\ \E d \in Draws :
          calls[d] = 2 /\ \E w \in windows : w.draw = d
    /\ \E w1, w2 \in windows : w1.draw # w2.draw /\ w1.b # w2.b

(* ========== the computation on files that lack some locations ========= *)
\* the locations a draw's beta regression file may have rows for: any
\* non-empty part of the locations of total_deaths
InitRegression ==
    /\ IdlePaths
    /\ total_deaths = [l \in Locations |-> l % (MaxDeaths + 1)]
    /\ beta_scaling \in RunConfigs
    /\ mt = [d \in Draws |-> << 0, 0 >>]
    /\ beta_level = [d \in Draws |-> 2]
    /\ regression_locations \in [Draws -> (SUBSET Locations) \ { {} }]
    /\ pc = "compute"
    /\ task = [d \in Draws |-> "queued"]
    /\ result = [d \in Draws |-> NoResult]
    /\ scaling_data = << >>
    /\ average_log_beta_resid_mean = [l \in Locations |-> NaN]
    /\ offset = [l \in Locations |-> Num(0)]
    /\ i = 0
    /\ saved = << >>
    /\ error = "none"
    /\ finished = << >>
    /\ calls = [d \in Draws |-> 0]
    /\ windows = {}
    /\ OneScenario

SpecRegression == InitRegression /\ [][NextWindow]_vars

\* the columns taken from the beta regression file
RegressionFields ==
    { "fit_final", "pred_start", "scale_init", "log_beta_residual_mean" }

\* C12 (as claimed): a call of compute_beta_scaling_parameters for a draw
\* whose beta regression file lacks a location of total_deaths raises; what a
\* call returns has a row for every location of total_deaths, with no
\* missing value in the columns taken from the file.
C12_AbsentLocationReported ==
    \A d \in Draws :
        /\ ( /\ calls[d] > 0
             /\ DOMAIN total_deaths \ regression_locations[d] # {} )
           => result[d].raised \notin { "none", "pending" }
        /\ result[d].raised = "none" =>
              /\ DOMAIN result[d].df = DOMAIN total_deaths
              /\ \A l \in DOMAIN total_deaths :
                    /\ ~result[d].df[l].log_beta_residual_mean.nan
                    /\ ~Log(result[d].df[l].fit_final).nan
                    /\ ~Log(result[d].df[l].pred_start).nan
                    /\ ~Log(result[d].df[l].scale_init).nan

(* ============================ paths.py ================================= *)
\* A path is [abs, parts]: parts is the sequence of its components, a
\* component a sequence of text pieces (digits are single pieces).
Digits == << "0", "1", "2", "3", "4", "5", "6", "7", "8", "9" >>

\* str(n) of a natural number, as format() and f-strings write it
RECURSIVE Str(_)
Str(n) == IF n < 10 THEN << Digits[n + 1] >>
          ELSE Str(n \div 10) \o << Digits[(n % 10) + 1] >>

\* pathlib's p / q: an absolute q replaces p
PathJoin(p, q) ==
    IF q.abs THEN q ELSE [abs |-> p.abs, parts |-> p.parts \o q.parts]

\* p / 'name'
Child(p, name) == PathJoin(p, [abs |-> FALSE, parts |-> << name >>])

\* (a template that keeps only the last digit of the draw id)
DrawFileLastDigit(draw_id) == << "draw_" >> \o Str(draw_id % 10) \o << ".csv" >>

\* DRAW_FILE_TEMPLATE.format(draw_id=draw_id), line 11
DRAW_FILE_TEMPLATE(draw_id) == << "draw_" >> \o Str(draw_id) \o << ".csv" >>

(* ScenarioPaths, lines 43-80 *)
ScenarioPaths(root_dir, read_only) ==
    [cls |-> "ScenarioPaths", root_dir |-> root_dir, read_only |-> read_only]

ScenarioPaths_beta_scaling(self) == Child(self.root_dir, << "beta_scaling" >>)
ScenarioPaths_components(self) == Child(self.root_dir, << "component_draws" >>)
ScenarioPaths_outputs(self) == Child(self.root_dir, << "outputs" >>)

ScenarioPaths_get_beta_scaling_path(self, draw_id) ==
    Child(ScenarioPaths_beta_scaling(self), DRAW_FILE_TEMPLATE(draw_id))
ScenarioPaths_get_components_path(self, draw_id) ==
    Child(ScenarioPaths_components(self), DRAW_FILE_TEMPLATE(draw_id))
ScenarioPaths_get_outputs_path(self, draw_id) ==
    Child(ScenarioPaths_outputs(self), DRAW_FILE_TEMPLATE(draw_id))

ScenarioPaths_directories(self) ==
    << ScenarioPaths_beta_scaling(self), ScenarioPaths_components(self),
       ScenarioPaths_outputs(self) >>

(* ForecastPaths, lines 83-107 *)
\* (every scenario's ScenarioPaths rooted at root_dir itself)
ForecastPaths_scenario_paths_at_root(self) ==
    [k \in 1 .. Len(self.scenarios) |->
        ScenarioPaths(self.root_dir, self.read_only)]

\* __post_init__: one ScenarioPaths per scenario, rooted at root_dir/scenario
ForecastPaths_scenario_paths(self) ==
    [k \in 1 .. Len(self.scenarios) |->
        ScenarioPaths(Child(self.root_dir, self.scenarios[k]), self.read_only)]

\* self.scenario_paths[scenario]: KeyError when the scenario is not a key
ForecastPaths_lookup(self, scenario) ==
    LET at == { k \in 1 .. Len(self.scenarios) : self.scenarios[k] = scenario }
    IN  IF at = {} THEN [raised |-> "KeyError"]
        ELSE [raised |-> "none",
              value |-> ForecastPaths_scenario_paths(self)[CHOOSE k \in at : TRUE]]

\* get_beta_scaling_path, get_components_path, get_outputs_path
\* (lines 96-103), by the kind of artifact
ForecastPaths_get_path(self, kind, draw_id, scenario) ==
    LET sp == ForecastPaths_lookup(self, scenario)
    IN  IF sp.raised # "none" THEN sp
        ELSE [raised |-> "none",
              value |->
                CASE kind = "beta_scaling" ->
                        ScenarioPaths_get_beta_scaling_path(sp.value, draw_id)
                  [] kind = "components" ->
                        ScenarioPaths_get_components_path(sp.value, draw_id)
                  [] kind = "outputs" ->
                        ScenarioPaths_get_outputs_path(sp.value, draw_id)]

(* RegressionPaths, lines 110-167 *)
RegressionPaths_directories(self) ==
    << Child(self.root_dir, << "parameters" >>),
       Child(self.root_dir, << "dates" >>),
       Child(self.root_dir, << "beta" >>),
       Child(self.root_dir, << "coefficients" >>),
       Child(self.root_dir, << "data" >>) >>

\* the directories property of each class (InfectionPaths and
\* CovariatePaths declare none)
directories(self) ==
    CASE self.cls = "ScenarioPaths" -> ScenarioPaths_directories(self)
      [] self.cls = "RegressionPaths" -> RegressionPaths_directories(self)
      [] OTHER -> << >>

\* mkdir(directory, parents=True, exists_ok=True): the directory and every
\* missing ancestor
mkdir(dirs, directory) ==
    dirs \cup { [abs |-> directory.abs, parts |-> SubSeq(directory.parts, 1, k)] :
                k \in 1 .. Len(directory.parts) }

RECURSIVE MkdirAll(_, _)
MkdirAll(dirs, list) ==
    IF list = << >> THEN dirs
    ELSE MkdirAll(mkdir(dirs, Head(list)), Tail(list))

\* Paths.make_dirs, lines 30-40
Paths_make_dirs(self, dirs) ==
    IF self.read_only
    THEN [raised |-> "RuntimeError", dirs |-> dirs]
    ELSE [raised |-> "none", dirs |-> MkdirAll(dirs, directories(self))]

\* ForecastPaths.make_dirs, lines 105-107: make_dirs of each scenario's
\* ScenarioPaths in turn, the first exception ending the loop
RECURSIVE ForEachMakeDirs(_, _)
ForEachMakeDirs(children, dirs) ==
    IF children = << >> THEN [raised |-> "none", dirs |-> dirs]
    ELSE LET r == Paths_make_dirs(Head(children), dirs)
         IN  IF r.raised # "none" THEN r
             ELSE ForEachMakeDirs(Tail(children), r.dirs)

ForecastPaths_make_dirs(self, dirs) ==
    ForEachMakeDirs(ForecastPaths_scenario_paths(self), dirs)

make_dirs(self, dirs) ==
    IF self.cls = "ForecastPaths" THEN ForecastPaths_make_dirs(self, dirs)
    ELSE Paths_make_dirs(self, dirs)

(* InfectionPaths, lines 170-203 *)
EndsWith(name, suffix) ==
    /\ Len(name) >= Len(suffix)
    /\ SubSeq(name, Len(name) - Len(suffix) + 1, Len(name)) = suffix

\* self.root_dir.glob(f"*_{location_id}"): the entries of the root whose
\* name ends in _<location_id>, each as root_dir / name
GlobLocation(self, entries, location_id) ==
    { Child(self.root_dir, name) :
        name \in { n \in DOMAIN entries :
                     EndsWith(n, << "_" >> \o Str(location_id)) } }

\* get_location_dir, lines 183-194
InfectionPaths_get_location_dir(self, entries, location_id) ==
    LET matches == GlobLocation(self, entries, location_id)
        num_matches == Cardinality(matches)
    IN  IF num_matches > 1 THEN [raised |-> "RuntimeError"]
        ELSE IF num_matches = 0 THEN [raised |-> "FileNotFoundError"]
        ELSE [raised |-> "none",
              value |-> PathJoin(self.root_dir, CHOOSE m \in matches : TRUE)]

\* int(text) of a text of decimal digits; anything else is a ValueError
IsDigits(text) ==
    /\ text # << >>
    /\ \A k \in 1 .. Len(text) : \E v \in 1 .. 10 : Digits[v] = text[k]

RECURSIVE IntOf(_)
IntOf(text) ==
    IF text = << >> THEN 0
    ELSE 10 * IntOf(SubSeq(text, 1, Len(text) - 1))
         + (CHOOSE v \in 0 .. 9 : Digits[v + 1] = text[Len(text)])

\* p.name.split('_')[-1]: what follows the last underscore, the whole name
\* when it has none
LastPart(name) ==
    LET at == { k \in 1 .. Len(name) : name[k] = "_" }
    IN  IF at = {} THEN name
        ELSE SubSeq(name, (CHOOSE k \in at : \A j \in at : j <= k) + 1,
                    Len(name))

\* get_modelled_locations, lines 196-198: the id of each directory of the
\* root (the list's order, that of iterdir, and its repeats are not kept)
InfectionPaths_get_modelled_locations(self, entries) ==
    LET dirs == { n \in DOMAIN entries : entries[n] = "dir" }
    IN  IF \E n \in dirs : ~IsDigits(LastPart(n))
        THEN [raised |-> "ValueError"]
        ELSE [raised |-> "none",
              value |-> { IntOf(LastPart(n)) : n \in dirs }]

(* ------------------------ the path objects in use ---------------------- *)
\* how many get_*_path calls one behaviour makes
MaxResolved == 2

Roots ==
    { [abs |-> TRUE, parts |-> << << "data" >> >>],    \* Path('/data')
      [abs |-> FALSE, parts |-> << << "data" >> >>],   \* Path('data')
      [abs |-> FALSE, parts |-> << >>] }               \* Path('.')

ScenarioNames == { << "reference" >>, << "worse" >>, << "outputs" >> }
ScenarioLists ==
    { << >>, << << "reference" >> >>, << << "reference" >>, << "outputs" >> >> }

ArtifactKinds == { "beta_scaling", "components", "outputs" }
PathDrawIds == { 1, 10, 11 }

\* names an infection root may hold, and the location ids looked up
EntryNames ==
    { << "a", "_", "1" >>, << "b", "_", "1" >>, << "c", "_", "2" >>,
      << "d", "_", "1", "1" >>, << "e", "1" >>, << "3" >> }
LocationIds == { 1, 2, 11, 3 }

\* the objects the constructors return: InfectionPaths and CovariatePaths
\* raise in __post_init__ unless read_only (lines 175-177, 212-214)
Stores ==
    { [cls |-> c, root_dir |-> r, read_only |-> ro, scenarios |-> sc] :
        c \in { "ScenarioPaths", "ForecastPaths", "RegressionPaths",
                "InfectionPaths", "CovariatePaths" },
        r \in Roots, ro \in BOOLEAN, sc \in ScenarioLists }

Constructible(st) ==
    /\ st.cls \in { "InfectionPaths", "CovariatePaths" } => st.read_only
    /\ st.cls # "ForecastPaths" => st.scenarios = << >>

IdleRun ==
    /\ total_deaths = [l \in Locations |-> 0]
    /\ beta_scaling = [window_size |-> 5, average_over_min |-> 3,
                       average_over_max |-> 11, offset_deaths_lower |-> 1,
                       offset_deaths_upper |-> 3]
    /\ mt = [d \in Draws |-> [k \in 1 .. 2 |-> 0]]
    /\ beta_level = [d \in Draws |-> 2]
    /\ regression_locations = [d \in Draws |-> Locations]
    /\ pc = "paths"
    /\ task = [d \in Draws |-> "queued"]
    /\ result = [d \in Draws |-> NoResult]
    /\ scaling_data = << >>
    /\ average_log_beta_resid_mean = [l \in Locations |-> NaN]
    /\ offset = [l \in Locations |-> Num(0)]
    /\ i = 0
    /\ saved = << >>
    /\ error = "none"
    /\ finished = << >>
    /\ calls = [d \in Draws |-> 0]
    /\ windows = {}
    /\ OneScenario

InitPaths ==
    /\ IdleRun
    /\ store \in { st \in Stores : Constructible(st) }
    /\ fs_entries \in
          IF store.cls = "InfectionPaths"
          THEN UNION { [names -> { "dir", "file" }] : names \in SUBSET EntryNames }
          ELSE { << >> }
    /\ fs_dirs = {}
    /\ op = [name |-> "none"]
    /\ resolved = << >>

\* store.make_dirs()
MakeDirs ==
    /\ UNCHANGED run_vars
    /\ LET r == make_dirs(store, fs_dirs)
       IN  /\ fs_dirs' = r.dirs
           /\ op' = [name |-> "make_dirs", raised |-> r.raised]
    /\ UNCHANGED << store, fs_entries, resolved >>

\* store.get_location_dir(location_id) on an InfectionPaths
GetLocationDir(location_id) ==
    /\ UNCHANGED run_vars
    /\ store.cls = "InfectionPaths"
    /\ op' = [name |-> "get_location_dir", location_id |-> location_id,
              outcome |-> InfectionPaths_get_location_dir(store, fs_entries,
                                                          location_id)]
    /\ UNCHANGED << store, fs_entries, fs_dirs, resolved >>

\* store.get_modelled_locations() on an InfectionPaths
GetModelledLocations ==
    /\ UNCHANGED run_vars
    /\ store.cls = "InfectionPaths"
    /\ op' = [name |-> "get_modelled_locations",
              outcome |-> InfectionPaths_get_modelled_locations(store,
                                                                fs_entries)]
    /\ UNCHANGED << store, fs_entries, fs_dirs, resolved >>

\* store.get_<kind>_path(draw_id, scenario) on a ForecastPaths
GetPath(kind, draw_id, scenario) ==
    /\ UNCHANGED run_vars
    /\ store.cls = "ForecastPaths"
    /\ Len(resolved) < MaxResolved
    /\ LET r == ForecastPaths_get_path(store, kind, draw_id, scenario)
       IN  /\ op' = [name |-> "get_path", outcome |-> r]
           /\ resolved' = IF r.raised # "none" THEN resolved
                          ELSE Append(resolved,
                                      [scenario |-> scenario, kind |-> kind,
                                       draw_id |-> draw_id, path |-> r.value])
    /\ UNCHANGED << store, fs_entries, fs_dirs >>

NextPaths ==
    \/ MakeDirs
    \/ \E id \in LocationIds : GetLocationDir(id)
    \/ GetModelledLocations
    \/ \E kind \in ArtifactKinds, draw_id \in PathDrawIds, sc \in ScenarioNames :
          GetPath(kind, draw_id, sc)

SpecPaths == InitPaths /\ [][NextPaths]_vars

(* ================= runs for two scenarios of one version =============== *)
\* data_interface.save_beta_scales(df, scenario_name, draw_id), line 65: the
\* file it writes, <scenario>/beta_scaling/draw_<draw_id>.csv under the
\* version root, as get_beta_scaling_path of the version's ForecastPaths
save_beta_scales_path(forecast_paths, scenario, draw_id) ==
    ForecastPaths_get_path(forecast_paths, "beta_scaling", draw_id, scenario)

\* a run for one scenario and a run for another, store being the
\* ForecastPaths of their common version root
InitScenarios ==
    /\ total_deaths = [l \in Locations |-> l % (MaxDeaths + 1)]
    /\ beta_scaling \in RunConfigs
    /\ mt \in RunGenerators
    /\ beta_level = [d \in Draws |-> 2]
    /\ regression_locations = [d \in Draws |-> Locations]
    /\ pc = "pool"
    /\ task = [d \in Draws |-> "queued"]
    /\ result = [d \in Draws |-> NoResult]
    /\ scaling_data = << >>
    /\ average_log_beta_resid_mean = [l \in Locations |-> NaN]
    /\ offset = [l \in Locations |-> Num(0)]
    /\ i = 0
    /\ saved = << >>
    /\ error = "none"
    /\ finished = << >>
    /\ calls = [d \in Draws |-> 0]
    /\ windows = {}
    /\ scenario_name \in ScenarioNames
    /\ other_run \in { [scenario_name |-> sc, i |-> 0] :
                         sc \in ScenarioNames \ { scenario_name } }
    /\ store \in { [cls |-> "ForecastPaths", root_dir |-> r, read_only |-> FALSE,
                     scenarios |-> << scenario_name, other_run.scenario_name >>] :
                   r \in Roots }
    /\ fs_entries = << >>
    /\ fs_dirs = {}
    /\ op = [name |-> "none"]
    /\ resolved = << >>

\* the other run's loop of lines 58-65, at any moment of this run: it saves
\* its draws in list order, the draw at position k being draw k - 1
OtherRunSave ==
    /\ other_run.i < NDraws
    /\ other_run' = [other_run EXCEPT !.i = @ + 1]
    /\ UNCHANGED << total_deaths, beta_scaling, mt, beta_level,
                    regression_locations, pc, task, result, scaling_data,
                    average_log_beta_resid_mean, offset, i, saved, error,
                    finished, calls, windows, scenario_name >>
    /\ UNCHANGED path_vars

NextScenarios == Next \/ OtherRunSave

SpecScenarios == InitScenarios /\ [][NextScenarios]_vars

\* the file each save of this run wrote, in order, and the files the other
\* run has written
WrittenByThisRun ==
    [k \in 1 .. Len(saved) |->
        save_beta_scales_path(store, saved[k].scenario_name,
                              saved[k].draw_id).value]
WrittenByOtherRun ==
    { save_beta_scales_path(store, other_run.scenario_name, d).value :
        d \in 0 .. (other_run.i - 1) }

\* C14: no two saves of a run write the same file, and the files written by
\* the runs of two scenarios of one version are disjoint, however the two
\* runs interleave.
C14_WriteTargetsNotContended ==
    /\ \A p, q \in 1 .. Len(saved) :
          p # q => WrittenByThisRun[p] # WrittenByThisRun[q]
    /\ Cardinality(WrittenByOtherRun) = other_run.i
    /\ \A p \in 1 .. Len(saved) : WrittenByThisRun[p] \notin WrittenByOtherRun

\* both runs have saved all their draws, one of the two scenarios being
\* named "outputs" like a directory of every scenario
C14_Witness ==
    /\ pc = "done"
    /\ Len(saved) = NDraws
    /\ other_run.i = NDraws
    /\ << "outputs" >> \in { scenario_name, other_run.scenario_name }

(* ========================= claims: the paths =========================== *)
\* the names under the infection root that end in _<location_id>
MatchingNames(location_id) ==
    { n \in DOMAIN fs_entries : EndsWith(n, << "_" >> \o Str(location_id)) }

\* C7 (as claimed): get_location_dir returns the match when exactly one
\* entry of the root matches, raises FileNotFoundError when none does and
\* another error when several do.
C7_LocationDirReturnsTheMatch ==
    op.name = "get_location_dir" =>
        LET m == MatchingNames(op.location_id)
        IN  /\ Cardinality(m) = 1 =>
                  /\ op.outcome.raised = "none"
                  /\ \A n \in m : op.outcome.value = Child(store.root_dir, n)
            /\ Cardinality(m) = 0 => op.outcome.raised = "FileNotFoundError"
            /\ Cardinality(m) > 1 =>
                  op.outcome.raised \notin { "none", "FileNotFoundError" }

\* the part of C7 that holds of the code: which of the three outcomes
\* happens, and that a returned path ends in the one matching name
C7_OutcomeByNumberOfMatches ==
    op.name = "get_location_dir" =>
        LET m == MatchingNames(op.location_id)
        IN  /\ op.outcome.raised = "none" <=> Cardinality(m) = 1
            /\ op.outcome.raised = "FileNotFoundError" <=> Cardinality(m) = 0
            /\ op.outcome.raised = "RuntimeError" <=> Cardinality(m) > 1
            /\ op.outcome.raised = "none" =>
                  \A n \in m :
                     op.outcome.value.parts[Len(op.outcome.value.parts)] = n

\* the sub-directories a writable store declares: its own top-level ones
\* and those of each scenario
DeclaredDirectories(st) ==
    IF st.cls = "ForecastPaths"
    THEN { Child(Child(st.root_dir, st.scenarios[k]), sub) :
             k \in 1 .. Len(st.scenarios),
             sub \in { << "beta_scaling" >>, << "component_draws" >>,
                       << "outputs" >> } }
    ELSE { directories(st)[k] : k \in 1 .. Len(directories(st)) }

\* C8 (as claimed): make_dirs on a read-only store raises the mode error
\* (not a not-found error) and creates nothing, for every class and every
\* list of scenarios; on a writable store it creates every declared
\* directory.
C8_MakeDirsRefusesReadOnly ==
    op.name = "make_dirs" =>
        IF store.read_only
        THEN op.raised = "RuntimeError" /\ fs_dirs = {}
        ELSE op.raised = "none" /\ DeclaredDirectories(store) \subseteq fs_dirs

\* C9: the get_*_path calls of one ForecastPaths give the same path for the
\* same (scenario, kind, draw id), whatever was resolved before, and
\* different paths for keys that differ in scenario, kind or draw id.
C9_ResolutionPureAndCollisionFree ==
    \A p, q \in 1 .. Len(resolved) :
        ( /\ resolved[p].scenario = resolved[q].scenario
          /\ resolved[p].kind = resolved[q].kind
          /\ resolved[p].draw_id = resolved[q].draw_id )
        <=> resolved[p].path = resolved[q].path

\* the same key was resolved twice; and: two keys that differ only in the
\* draw id (1 and 11) were resolved
C9_Witness ==
    /\ Len(resolved) = 2
    /\ resolved[1].scenario = resolved[2].scenario
    /\ resolved[1].kind = resolved[2].kind
    /\ { resolved[1].draw_id, resolved[2].draw_id } = { 1, 11 }

\* C15 (as claimed): for every id in what get_modelled_locations returned,
\* get_location_dir(id) on the same root does not raise FileNotFoundError,
\* and what it returns is a directory of the root whose name ends in _<id>.
C15_ListedLocationsAreFound ==
    ( /\ op.name = "get_modelled_locations"
      /\ op.outcome.raised = "none" ) =>
        \A id \in op.outcome.value :
            LET r == InfectionPaths_get_location_dir(store, fs_entries, id)
            IN  /\ r.raised # "FileNotFoundError"
                /\ r.raised = "none" =>
                      \E n \in MatchingNames(id) :
                          /\ fs_entries[n] = "dir"
                          /\ r.value = Child(store.root_dir, n)

====
